---- MODULE Spec2Model ----
(***************************************************************************)
(* BiRealEST: bidirectional Expansive Space Trees planner.                 *)
(* Model of ompl/geometric/planners/est/src/BiRealEST.cpp.                 *)
(*                                                                         *)
(* The configuration space is the integer line 0..MaxCoord with the        *)
(* metric |a - b|.  A Motion is a record; a Motion* is the index of the    *)
(* record in the motion vector of its tree (0 is the NULL pointer), and a  *)
(* State* is the pair (tree, index) of the motion owning the state.        *)
(* The motion-validity oracle and the goal's start/goal pairing are        *)
(* relations on ordered pairs of states, fixed when the problem is set.    *)
(***************************************************************************)
EXTENDS Integers, Sequences, FiniteSets, TLC

\* ---------------------------------------------------------------- bounds
MaxCoord == 1
MaxMotions == 2
MaxStarts == 1
MaxGoalSamples == 1
RngSteps == 2

\* ------------------------------------------------------ planner parameters
\* maxDistance_ as configured by setup(); nbrhoodRadius_ = maxDistance_ / 3.0.
\* A radius is the rational num/den.
maxDistance_ == 1
maxDistanceR == [num |-> maxDistance_, den |-> 1]
nbrhoodRadius_ == [num |-> maxDistance_, den |-> 3]

States == 0..MaxCoord
StatePairs == States \X States

VARIABLES
    startMotions_,    \* std::vector<Motion*> of the start tree
    goalMotions_,     \* std::vector<Motion*> of the goal tree
    nnStart_,         \* nearest-neighbor index of the start tree (motion indices)
    nnGoal_,          \* nearest-neighbor index of the goal tree
    startPdf_,        \* PDF<Motion*> of the start tree: elements [data, weight]
    goalPdf_,         \* PDF<Motion*> of the goal tree
    connectionPoint_, \* pair of State*
    sampler_,         \* whether the valid state sampler is allocated
    sampledGoals,     \* pis_.getSampledGoalsCount()
    pc,               \* "idle" (outside solve) or "loop" (at the test of the main loop)
    ptc,              \* the planner termination condition of the running solve
    startTree,        \* local of solve
    solved,           \* local of solve
    status,           \* what the last solve returned
    checkMotion,      \* si_->checkMotion: the ordered pairs of states it accepts
    isStartGoalPairValid, \* the ordered pairs (start, goal) the goal accepts
    path,             \* the path given to addSolutionPath by the current/last solve
    call,             \* the inputs of the current/last solve
    last,             \* the side and the outcome of its latest main-loop iteration
    flipsOdd,         \* whether an odd number of them reached the swap of the trees
    clears,           \* consecutive clear() calls just made (capped at 2)
    heap,             \* the objects allocated and not released
    freedTwice,       \* the objects released while not allocated
    alive             \* FALSE once the destructor has run

planner == <<startMotions_, goalMotions_, nnStart_, nnGoal_, startPdf_, goalPdf_,
             connectionPoint_, sampler_, sampledGoals>>
locals == <<pc, ptc, startTree, solved, status>>
oracles == <<checkMotion, isStartGoalPairValid>>
history == <<path, call, last, flipsOdd, clears>>
memory == <<heap, freedTwice, alive>>
vars == <<planner, locals, oracles, history, memory>>

\* ------------------------------------------------------------ data model
NULL == 0
NullState == [tree |-> "none", idx |-> 0]
NullPair == <<NullState, NullState>>
StatePtr(tree, i) == [tree |-> tree, idx |-> i]

\* Mutant: the parent recorded is the motion after the one expanded from
Motion_parentShifted(st, par, rt) ==
    [state |-> st, parent |-> par + 1, root |-> rt, element |-> NULL]

\* Motion(si): state allocated, parent NULL, element NULL until inserted.
Motion(st, par, rt) == [state |-> st, parent |-> par, root |-> rt, element |-> NULL]

\* The heap objects: a Motion and the State it points to, named after the tree
\* and the position of the motion; the scratch objects of solve().
MotionCell(tree, i) == [obj |-> "Motion", tree |-> tree, idx |-> i]
StateCell(tree, i) == [obj |-> "State", tree |-> tree, idx |-> i]
\* new Motion(si_): the motion and the state its constructor allocates
NewMotion(tree, i) == {MotionCell(tree, i), StateCell(tree, i)}
\* delete motion: the destructor of Motion releases nothing but the motion
DeleteMotion(tree, i) == {MotionCell(tree, i)}
\* base::State *xstate = si_->allocState();  Motion* xmotion = new Motion();
XStateCell == StateCell("solve", NULL)
XMotionCell == MotionCell("solve", NULL)
ScratchAllocated == {XStateCell, XMotionCell}
\* si_->freeState(xstate);  delete xmotion;
ScratchReleased == {XStateCell} \cup DeleteMotion("solve", NULL)

\* The objects created for the motions appended to a tree
NewMotions(tree, old, new) ==
    UNION {NewMotion(tree, i) : i \in (Len(old) + 1)..Len(new)}
\* if (motions[i]->state) si_->freeState(motions[i]->state);  delete motions[i];
FreedMotions(tree, motions) ==
    UNION {{StateCell(tree, i)} \cup DeleteMotion(tree, i) : i \in 1..Len(motions)}
\* freeMemory(): what it releases, given the two motion vectors
freeMemory(sMotions, gMotions) ==
    FreedMotions("start", sMotions) \cup FreedMotions("goal", gMotions)

Abs(x) == IF x < 0 THEN -x ELSE x
\* si_->distance, as used by distanceFunction
distanceFunction(a, b) == Abs(a - b)

\* Weights are the rationals num/den
\* Mutant: the neighbors keep their weight
Decay_kept(w) == w

\* w / (w + 1.)
Decay(w) == [num |-> w.num, den |-> w.num + w.den]
\* Mutant: the new motion does not count its neighbors
SeedWeight_alone(k) == [num |-> 1, den |-> 1]

\* 1. / (k + 1.)
SeedWeight(k) == [num |-> 1, den |-> k + 1]

\* NearestNeighbors::nearestR: the indexed motions within radius r of the state
\* q, in insertion order.
nearestR(nn, motions, q, r) ==
    SelectSeq(nn, LAMBDA i : r.den * distanceFunction(motions[i].state, q) <= r.num)

\* PDF::update over the neighbors, in order (addMotion's loop)
RECURSIVE UpdateNeighbors(_, _, _, _)
UpdateNeighbors(pdf, motions, neighbors, i) ==
    IF i > Len(neighbors) THEN pdf
    ELSE LET elem == motions[neighbors[i]].element
             w == pdf[elem].weight
         IN UpdateNeighbors([pdf EXCEPT ![elem].weight = Decay(w)], motions, neighbors, i + 1)

\* Mutant: the new motion is not added to the nearest-neighbor index
addMotion_unindexed(motion, motions, pdf, nn, neighbors) ==
    LET pdf1 == UpdateNeighbors(pdf, motions, neighbors, 1)
        me == Len(motions) + 1
        pdf2 == Append(pdf1, [data |-> me, weight |-> SeedWeight(Len(neighbors))])
    IN [motions |-> Append(motions, [motion EXCEPT !.element = Len(pdf2)]),
        pdf |-> pdf2,
        nn |-> nn]

\* The tree a call of addMotion leaves: the new motion is motions[Len(motions)+1].
addMotion(motion, motions, pdf, nn, neighbors) ==
    LET pdf1 == UpdateNeighbors(pdf, motions, neighbors, 1)
        me == Len(motions) + 1
        pdf2 == Append(pdf1, [data |-> me, weight |-> SeedWeight(Len(neighbors))])
    IN [motions |-> Append(motions, [motion EXCEPT !.element = Len(pdf2)]),
        pdf |-> pdf2,
        nn |-> Append(nn, me)]

Tree(motions, pdf, nn) == [motions |-> motions, pdf |-> pdf, nn |-> nn]
EmptyTree == Tree(<<>>, <<>>, <<>>)

\* Mutant: every seed gets the state of the first motion of the tree as its root
AddRoot_firstRoot(t, st) ==
    LET neighbors == nearestR(t.nn, t.motions, st, nbrhoodRadius_)
    IN addMotion(Motion(st, NULL, 1), t.motions, t.pdf, t.nn, neighbors)

\* A root motion for the state st, inserted as solve does for start and goal states
AddRoot(t, st) ==
    LET me == Len(t.motions) + 1
        neighbors == nearestR(t.nn, t.motions, st, nbrhoodRadius_)
    IN addMotion(Motion(st, NULL, me), t.motions, t.pdf, t.nn, neighbors)

\* while (const base::State *st = pis_.nextStart()) ...
RECURSIVE AddStarts(_, _, _)
AddStarts(t, starts, i) ==
    IF i > Len(starts) THEN t ELSE AddStarts(AddRoot(t, starts[i]), starts, i + 1)

\* ------------------------------------------------------- steps of solve()
\* Mutant: the loop test forgets the termination condition
LoopContinues_untilSolved(p, s) == ~s

\* while (ptc == false && !solved)
LoopContinues(p, s) == p = FALSE /\ ~s

\* goalMotions_.size() == 0 || pis_.getSampledGoalsCount() < goalMotions_.size() / 2
NeedGoalSample(goalSize, sampled) == goalSize = 0 \/ sampled < goalSize \div 2

\* Mutant: the test for an empty start tree is missing
NoStartStates_never(startSize) == FALSE

\* if (startMotions_.size() == 0) ... return INVALID_START
NoStartStates(startSize) == startSize = 0

\* Mutant: the break is taken when the goal tree is not empty
GoalTreeEmpty_inverted(goalSize) == goalSize # 0

\* Mutant: the break on an empty goal tree is missing
GoalTreeEmpty_never(goalSize) == FALSE

\* if (goalMotions_.size() == 0) ... break
GoalTreeEmpty(goalSize) == goalSize = 0

\* Mutant: the two statuses are swapped
SolveStatus_swapped(s) == IF s THEN "TIMEOUT" ELSE "EXACT_SOLUTION"

\* return solved ? EXACT_SOLUTION : TIMEOUT
SolveStatus(s) == IF s THEN "EXACT_SOLUTION" ELSE "TIMEOUT"

\* Mutant: the swap of the trees is missing
NextStartTree_keeps(flag) == flag

\* startTree = !startTree
NextStartTree(flag) == ~flag

\* Mutant: the trees are swapped before the continue as well
ContinueStartTree_swaps(flag) == ~flag

\* if (!sampleNear(...)) continue;  if (uniform01() < p) continue: startTree is kept
ContinueStartTree(flag) == flag

\* PDF::sample: any element of positive weight can be drawn
pdfSample(pdf) == {pdf[e].data : e \in {x \in 1..Len(pdf) : pdf[x].weight.num > 0}}

\* sampleNear(xstate, existing->state, maxDistance_): a state within maxDistance_
sampleNear(near) == {x \in States : distanceFunction(x, near) <= maxDistance_}

\* rng_.uniform01() drawn as u / RngSteps;  p = 1.0 - (1.0 / k);  uniform01() < p
RngDraws == 0..(RngSteps - 1)
Rejected(k, u) == k > 0 /\ u * k < (k - 1) * RngSteps

\* Mutant: the motion is checked from the candidate to the seed
ExpandQuery_backwards(existingState, xstate) == <<xstate, existingState>>

\* si_->checkMotion(existing->state, xstate)
ExpandQuery(existingState, xstate) == <<existingState, xstate>>
\* goal->isStartGoalPairValid(motion->root, neighbors[i]->root)
PairQuery(motionRoot, neighborRoot) == <<motionRoot, neighborRoot>>
\* si_->checkMotion(motion->state, neighbors[i]->state)
BridgeQuery(motionState, neighborState) == <<motionState, neighborState>>
\* connectionPoint_ = std::make_pair(motion->state, neighbors[i]->state)
ConnectionPoint(motionPtr, neighborPtr) == <<motionPtr, neighborPtr>>

\* while (solution != NULL) { mpath.push_back(solution); solution = solution->parent; }
RECURSIVE mpath(_, _)
mpath(motions, m) ==
    IF m = NULL THEN <<>> ELSE <<m>> \o mpath(motions, motions[m].parent)

Reverse(s) == [i \in 1..Len(s) |-> s[Len(s) + 1 - i]]
StatesOf(motions, idxs) == [i \in 1..Len(idxs) |-> motions[idxs[i]].state]

\* Mutant: mpath1 is appended front to back, like mpath2
SolutionPath_unreversed(sMotions, gMotions, startMotion, goalMotion) ==
    StatesOf(sMotions, mpath(sMotions, startMotion))
        \o StatesOf(gMotions, mpath(gMotions, goalMotion))

\* The states appended to the PathGeometric: mpath1 backwards, then mpath2
SolutionPath(sMotions, gMotions, startMotion, goalMotion) ==
    StatesOf(sMotions, Reverse(mpath(sMotions, startMotion)))
        \o StatesOf(gMotions, mpath(gMotions, goalMotion))

\* Mutant: the scan goes on after a connection, the last passing neighbor wins
RECURSIVE BridgeScan_last(_, _, _, _)
BridgeScan_last(nbs, i, m, others) ==
    IF i > Len(nbs) THEN 0
    ELSE LET nb == others[nbs[i]]
             later == BridgeScan_last(nbs, i + 1, m, others)
         IN IF later # 0 THEN later
            ELSE IF /\ PairQuery(m.root, others[nb.root].state) \in isStartGoalPairValid
                    /\ BridgeQuery(m.state, nb.state) \in checkMotion
                 THEN i
                 ELSE 0

\* for (i = 0; i < neighbors.size() && !solved; ++i): the position of the first
\* neighbor, from the i-th on, that passes both tests; 0 if none does.
RECURSIVE BridgeScan(_, _, _, _)
BridgeScan(nbs, i, m, others) ==
    IF i > Len(nbs) THEN 0
    ELSE LET nb == others[nbs[i]] IN
         IF /\ PairQuery(m.root, others[nb.root].state) \in isStartGoalPairValid
            /\ BridgeQuery(m.state, nb.state) \in checkMotion
         THEN i
         ELSE BridgeScan(nbs, i + 1, m, others)

\* ------------------------------------------------------------------ state
StartT == Tree(startMotions_, startPdf_, nnStart_)
GoalT == Tree(goalMotions_, goalPdf_, nnGoal_)

NoIteration == [side |-> "none", outcome |-> "none"]

\* The oracles a problem can come with
MotionOracles ==
    {StatePairs,
     {p \in StatePairs : p[1] <= p[2]},
     {p \in StatePairs : p[1] = p[2]}}
PairOracles ==
    {StatePairs,
     {p \in StatePairs : p[1] < p[2]}}

Init ==
    /\ startMotions_ = <<>> /\ goalMotions_ = <<>>
    /\ nnStart_ = <<>> /\ nnGoal_ = <<>>
    /\ startPdf_ = <<>> /\ goalPdf_ = <<>>
    /\ connectionPoint_ = NullPair
    /\ sampler_ = FALSE
    /\ sampledGoals = 0
    /\ pc = "idle" /\ ptc = FALSE /\ startTree = TRUE /\ solved = FALSE
    /\ status = "NONE"
    /\ checkMotion \in MotionOracles
    /\ isStartGoalPairValid \in PairOracles
    /\ path = <<>>
    /\ call = [goalOK |-> TRUE, couldSample |-> TRUE]
    /\ last = NoIteration
    /\ flipsOdd = FALSE
    /\ clears = 0
    /\ heap = {} /\ freedTwice = {} /\ alive = TRUE

SetStart(t) ==
    /\ startMotions_' = t.motions /\ startPdf_' = t.pdf /\ nnStart_' = t.nn
SetGoal(t) ==
    /\ goalMotions_' = t.motions /\ goalPdf_' = t.pdf /\ nnGoal_' = t.nn

\* What a step does to the heap: the motions appended to the trees are created,
\* the objects of created are allocated and those of released are released.
Allocated(created, released) ==
    LET h == heap \cup created
                  \cup NewMotions("start", startMotions_, startMotions_')
                  \cup NewMotions("goal", goalMotions_, goalMotions_')
    IN /\ heap' = h \ released
       /\ freedTwice' = freedTwice \cup (released \ h)
       /\ alive' = alive

\* The start states pis_.nextStart() can hand out in one solve
StartSeqs == UNION {[1..k -> States] : k \in 0..MaxStarts}

\* What every call of solve records on entry
Called(goalOK, could) ==
    /\ pc = "idle" /\ alive
    /\ call' = [goalOK |-> goalOK, couldSample |-> could]
    /\ path' = <<>> /\ last' = NoIteration /\ flipsOdd' = FALSE /\ clears' = 0

\* solve(), goal not a GoalSampleableRegion: lines 118-125
SolveUnrecognizedGoal ==
    /\ Called(FALSE, FALSE)
    /\ status' = "UNRECOGNIZED_GOAL_TYPE"
    /\ UNCHANGED <<planner, pc, ptc, startTree, solved, oracles, memory>>

\* solve(), no start state: lines 118-143
SolveInvalidStart ==
    \E could \in BOOLEAN :
        /\ Called(TRUE, could)
        /\ NoStartStates(Len(startMotions_))
        /\ status' = "INVALID_START"
        /\ UNCHANGED <<planner, pc, ptc, startTree, solved, oracles, memory>>

\* solve(), the goal region cannot be sampled: lines 118-149
SolveInvalidGoal ==
    \E starts \in StartSeqs :
        LET t == AddStarts(StartT, starts, 1) IN
        /\ Len(startMotions_) + Len(starts) <= MaxMotions
        /\ Called(TRUE, FALSE)
        /\ ~NoStartStates(Len(t.motions))
        /\ SetStart(t)
        /\ status' = "INVALID_GOAL"
        /\ UNCHANGED <<goalMotions_, goalPdf_, nnGoal_, connectionPoint_, sampler_,
                       sampledGoals, pc, ptc, startTree, solved, oracles>>
        /\ Allocated({}, {})

\* solve() up to the first test of the main loop: lines 118-160
SolveEnterLoop ==
    \E starts \in StartSeqs, p \in BOOLEAN :
        LET t == AddStarts(StartT, starts, 1) IN
        /\ Len(startMotions_) + Len(starts) <= MaxMotions
        /\ Called(TRUE, TRUE)
        /\ ~NoStartStates(Len(t.motions))
        /\ SetStart(t)
        /\ sampler_' = TRUE
        /\ pc' = "loop" /\ ptc' = p /\ startTree' = TRUE /\ solved' = FALSE
        /\ status' = "NONE"
        /\ UNCHANGED <<goalMotions_, goalPdf_, nnGoal_, connectionPoint_,
                       sampledGoals, oracles>>
        /\ Allocated(ScratchAllocated, {})

\* The termination condition turns true while solve runs
PtcTrips ==
    /\ pc = "loop" /\ ptc = FALSE
    /\ ptc' = TRUE
    /\ UNCHANGED <<planner, pc, startTree, solved, status, oracles, history, memory>>

\* The loop test fails: lines 162, 268-272.  The locals end with the call.
LoopExit ==
    /\ pc = "loop" /\ ~LoopContinues(ptc, solved)
    /\ pc' = "idle"
    /\ status' = SolveStatus(solved)
    /\ startTree' = TRUE /\ solved' = FALSE
    /\ UNCHANGED <<planner, ptc, oracles, history>>
    /\ Allocated({}, ScratchReleased)

\* ------------------------------------------------- one main-loop iteration
Min(a, b) == IF a < b THEN a ELSE b
Side == IF startTree THEN "start" ELSE "goal"
OtherSide == IF startTree THEN "goal" ELSE "start"
Iterated(outcome) == last' = [side |-> Side, outcome |-> outcome]
Flipped == flipsOdd' = ~flipsOdd

\* Goal-tree replenishment, lines 165-176: the goal tree and the count of sampled
\* goals it can leave.  pis_.nextGoal returns a valid goal state or NULL.
GoalStep ==
    IF ~NeedGoalSample(Len(goalMotions_), sampledGoals)
    THEN {[goal |-> GoalT, count |-> sampledGoals]}
    ELSE {[goal |-> AddRoot(GoalT, st), count |-> sampledGoals + 1] :
              st \in IF sampledGoals < MaxGoalSamples /\ Len(goalMotions_) < MaxMotions
                     THEN States ELSE {}}
         \cup {[goal |-> GoalT, count |-> c] :
                  c \in {sampledGoals, Min(sampledGoals + 1, MaxGoalSamples)}}

Expanding(r) == IF startTree THEN StartT ELSE r.goal
Other(r) == IF startTree THEN r.goal ELSE StartT

\* Lines 178-182: the goal tree is still empty, break; then lines 268-272
IterNoGoal ==
    /\ pc = "loop" /\ LoopContinues(ptc, solved)
    /\ \E r \in GoalStep, p \in BOOLEAN :
        /\ GoalTreeEmpty(Len(r.goal.motions))
        /\ SetGoal(r.goal) /\ sampledGoals' = r.count
        /\ ptc' = p
    /\ last' = [side |-> "none", outcome |-> "nogoal"]
    /\ pc' = "idle"
    /\ status' = SolveStatus(solved)
    /\ startTree' = TRUE /\ solved' = FALSE
    /\ UNCHANGED <<startMotions_, startPdf_, nnStart_, connectionPoint_, sampler_,
                   oracles, path, call, flipsOdd, clears>>
    /\ Allocated({}, ScratchReleased)

\* Lines 195-196: sampleNear fails, continue
IterSampleFail ==
    /\ pc = "loop" /\ LoopContinues(ptc, solved)
    /\ \E r \in GoalStep :
        /\ ~GoalTreeEmpty(Len(r.goal.motions))
        /\ pdfSample(Expanding(r).pdf) # {}
        /\ SetGoal(r.goal) /\ sampledGoals' = r.count
    /\ startTree' = ContinueStartTree(startTree)
    /\ Iterated("nosample")
    /\ UNCHANGED <<startMotions_, startPdf_, nnStart_, connectionPoint_, sampler_,
                   pc, ptc, solved, status, oracles, path, call, flipsOdd, clears>>
    /\ Allocated({}, {})

\* Lines 203-208: the candidate is rejected for the density around it, continue
IterReject ==
    /\ pc = "loop" /\ LoopContinues(ptc, solved)
    /\ \E r \in GoalStep :
        /\ ~GoalTreeEmpty(Len(r.goal.motions))
        /\ \E existing \in pdfSample(Expanding(r).pdf) :
           \E xstate \in sampleNear(Expanding(r).motions[existing].state) :
           \E u \in RngDraws :
             LET T == Expanding(r)
                 neighbors == nearestR(T.nn, T.motions, xstate, nbrhoodRadius_)
             IN Rejected(Len(neighbors), u)
        /\ SetGoal(r.goal) /\ sampledGoals' = r.count
    /\ startTree' = ContinueStartTree(startTree)
    /\ Iterated("rejected")
    /\ UNCHANGED <<startMotions_, startPdf_, nnStart_, connectionPoint_, sampler_,
                   pc, ptc, solved, status, oracles, path, call, flipsOdd, clears>>
    /\ Allocated({}, {})

\* Lines 211, 265: checkMotion(existing->state, xstate) fails, the trees are swapped
IterInvalidMotion ==
    /\ pc = "loop" /\ LoopContinues(ptc, solved)
    /\ \E r \in GoalStep :
        /\ ~GoalTreeEmpty(Len(r.goal.motions))
        /\ \E existing \in pdfSample(Expanding(r).pdf) :
           \E xstate \in sampleNear(Expanding(r).motions[existing].state) :
           \E u \in RngDraws :
             LET T == Expanding(r)
                 neighbors == nearestR(T.nn, T.motions, xstate, nbrhoodRadius_)
             IN /\ ~Rejected(Len(neighbors), u)
                /\ ExpandQuery(T.motions[existing].state, xstate) \notin checkMotion
        /\ SetGoal(r.goal) /\ sampledGoals' = r.count
    /\ startTree' = NextStartTree(startTree)
    /\ Iterated("invalid") /\ Flipped
    /\ UNCHANGED <<startMotions_, startPdf_, nnStart_, connectionPoint_, sampler_,
                   pc, ptc, solved, status, oracles, path, call, clears>>
    /\ Allocated({}, {})

\* Lines 211-265: the motion is valid, the new motion is added and the other tree's
\* motions within maxDistance_ are tried; connect says whether one of them connects.
Insert(connect) ==
    /\ pc = "loop" /\ LoopContinues(ptc, solved)
    /\ \E r \in GoalStep :
        /\ ~GoalTreeEmpty(Len(r.goal.motions))
        /\ \E existing \in pdfSample(Expanding(r).pdf) :
           \E xstate \in sampleNear(Expanding(r).motions[existing].state) :
           \E u \in RngDraws :
             LET T == Expanding(r)
                 O == Other(r)
                 neighbors == nearestR(T.nn, T.motions, xstate, nbrhoodRadius_)
                 root == T.motions[existing].root
                 T2 == addMotion(Motion(xstate, existing, root), T.motions, T.pdf, T.nn,
                                 neighbors)
                 motion == Len(T2.motions)
                 nbs == nearestR(O.nn, O.motions, xstate, maxDistanceR)
                 hit == BridgeScan(nbs, 1, [state |-> xstate,
                                            root |-> T.motions[root].state], O.motions)
                 newStart == IF startTree THEN T2 ELSE O
                 newGoal == IF startTree THEN O ELSE T2
             IN /\ ~Rejected(Len(neighbors), u)
                /\ ExpandQuery(T.motions[existing].state, xstate) \in checkMotion
                /\ Len(T.motions) < MaxMotions
                /\ connect = (hit # 0)
                /\ SetStart(newStart) /\ SetGoal(newGoal)
                /\ IF hit # 0
                   THEN LET nb == nbs[hit]
                            startMotion == IF startTree THEN motion ELSE nb
                            goalMotion == IF startTree THEN nb ELSE motion
                        IN /\ connectionPoint_' =
                                 ConnectionPoint(StatePtr(Side, motion),
                                                 StatePtr(OtherSide, nb))
                           /\ path' = SolutionPath(newStart.motions, newGoal.motions,
                                                   startMotion, goalMotion)
                           /\ solved' = TRUE
                   ELSE UNCHANGED <<connectionPoint_, path, solved>>
        /\ sampledGoals' = r.count
    /\ startTree' = NextStartTree(startTree)
    /\ Iterated(IF connect THEN "connected" ELSE "inserted") /\ Flipped
    /\ UNCHANGED <<sampler_, pc, ptc, status, oracles, call, clears>>
    /\ Allocated({}, {})

IterInsert == Insert(FALSE)
IterConnect == Insert(TRUE)

\* ------------------------------------------------------------------ clear()
\* Mutant: clear() leaves the motions in the vectors, the index and the samplers
ClearedTree_kept(t) == t

\* startMotions_.clear(); startPdf_.clear(); nnStart_->clear(); likewise the goal's
ClearedTree(t) == EmptyTree
\* Mutant: clear() leaves the connection record as it is
ClearedConnection_kept(cp) == cp

\* connectionPoint_ = std::make_pair<base::State*, base::State*>(NULL, NULL)
ClearedConnection(cp) == NullPair

\* clear(), lines 80-97; Planner::clear() resets pis_
Clear ==
    /\ pc = "idle" /\ alive
    /\ LET released == freeMemory(startMotions_, goalMotions_)
       IN /\ heap' = heap \ released
          /\ freedTwice' = freedTwice \cup (released \ heap)
          /\ alive' = alive
    /\ SetStart(ClearedTree(StartT)) /\ SetGoal(ClearedTree(GoalT))
    /\ connectionPoint_' = ClearedConnection(connectionPoint_)
    /\ sampler_' = FALSE
    /\ sampledGoals' = 0
    /\ clears' = Min(clears + 1, 2)
    /\ UNCHANGED <<locals, oracles, path, call, last, flipsOdd>>

\* ~BiRealEST(), lines 53-56: freeMemory(); the planner is not used afterwards
Destroy ==
    /\ pc = "idle" /\ alive
    /\ LET released == freeMemory(startMotions_, goalMotions_)
       IN /\ heap' = heap \ released
          /\ freedTwice' = freedTwice \cup (released \ heap)
    /\ alive' = FALSE
    /\ UNCHANGED <<planner, locals, oracles, history>>

Next ==
    \/ SolveUnrecognizedGoal
    \/ SolveInvalidStart
    \/ SolveInvalidGoal
    \/ SolveEnterLoop
    \/ PtcTrips
    \/ LoopExit
    \/ IterNoGoal
    \/ IterSampleFail
    \/ IterReject
    \/ IterInvalidMotion
    \/ IterInsert
    \/ IterConnect
    \/ Clear
    \/ Destroy

Spec == Init /\ [][Next]_vars

\* solve() runs to its return once the termination condition has tripped: the
\* condition is bound to trip, and the loop test is bound to be reached.
LiveSpec == Spec /\ WF_vars(PtcTrips) /\ WF_vars(LoopExit)

\* ------------------------------------------------------------------ claims
Returned == pc = "idle" /\ clears = 0 /\ status # "NONE"
FlipOutcomes == {"invalid", "inserted", "connected"}
ContinueOutcomes == {"nosample", "rejected"}
Roots(motions) == {i \in 1..Len(motions) : motions[i].parent = NULL}
ConsecutivePairs(p) == {<<p[i], p[i + 1]>> : i \in 1..(Len(p) - 1)}
AllEmpty ==
    /\ startMotions_ = <<>> /\ nnStart_ = <<>> /\ startPdf_ = <<>>
    /\ goalMotions_ = <<>> /\ nnGoal_ = <<>> /\ goalPdf_ = <<>>

\* C1: every consecutive pair (s_i, s_i+1) of a recorded solution path, in path
\* order, is accepted by the motion-validity oracle as checkMotion(s_i, s_i+1).
C1_PathMotionsValid ==
    path # <<>> => ConsecutivePairs(path) \subseteq checkMotion

\* C2: whenever a solution path is recorded, the goal accepts the pair
\* (first state of the path, last state of the path), in that argument order.
C2_PathEndsArePairValid ==
    path # <<>> => <<path[1], path[Len(path)]>> \in isStartGoalPairValid

\* The first bridge attempt on a start tree of one root A and a goal tree of one
\* root B has just been made: one node C has been expanded, by the latest iteration.
TrivialFirstAttempt ==
    /\ pc = "loop"
    /\ last.outcome \in {"inserted", "connected"}
    /\ Len(startMotions_) + Len(goalMotions_) = 3
    /\ Cardinality(Roots(startMotions_)) = 1
    /\ Cardinality(Roots(goalMotions_)) = 1
TrivialA == startMotions_[1].state
TrivialB == goalMotions_[1].state
TrivialC == IF Len(startMotions_) = 2 THEN startMotions_[2].state ELSE goalMotions_[2].state

\* C3 as claimed: in the trivial scenario, when the oracle accepts the motion A-B
\* and the goal accepts (A, B), the first bridge attempt yields the path [A, B].
C3_TrivialConnectTwoStates ==
    (/\ TrivialFirstAttempt
     /\ <<TrivialA, TrivialB>> \in checkMotion
     /\ <<TrivialA, TrivialB>> \in isStartGoalPairValid)
        => path = <<TrivialA, TrivialB>>

\* C3 amended: the roots are never bridged directly.  The first bridge attempt
\* follows the insertion of the first expanded node C and, when it succeeds, yields
\* the path [A, C, B] of exactly 3 states; no solution path has fewer than 3 states.
C3_TrivialConnectThreeStates ==
    /\ path # <<>> => Len(path) >= 3
    /\ TrivialFirstAttempt =>
          IF last.outcome = "connected"
          THEN path = <<TrivialA, TrivialC, TrivialB>>
          ELSE path = <<>>

C3_Witness ==
    /\ TrivialFirstAttempt /\ last.outcome = "connected"
    /\ <<TrivialA, TrivialB>> \in checkMotion
    /\ <<TrivialA, TrivialB>> \in isStartGoalPairValid
    /\ Len(path) = 3

\* C4 as claimed: every iteration that gets past the goal-tree replenishment
\* leaves the loop set to expand the other side in the iteration that follows.
C4_EveryIterationToggles ==
    (pc = "loop" /\ ptc = FALSE /\ ~solved /\ last.side # "none") => Side # last.side

\* C4 amended: an iteration toggles the side exactly when it reaches the end of the
\* loop body (invalid motion, insertion with or without a bridge); one abandoned by
\* a sampler failure or a density rejection leaves the side as it was, so that the
\* iteration that follows expands the same side again.
C4_ToggleUnlessAbandoned ==
    (pc = "loop" /\ last.side # "none") =>
        /\ last.outcome \in FlipOutcomes \cup ContinueOutcomes
        /\ (Side # last.side) <=> (last.outcome \in FlipOutcomes)

C4_Witness ==
    /\ pc = "loop" /\ ptc = FALSE /\ ~solved
    /\ last.outcome = "rejected" /\ last.side = "goal" /\ Side = "goal"

\* C5: the iterations that reach the swap at the end of the loop body expand the
\* start side, the goal side, the start side, ... in turn: the k-th of them
\* expands the start side iff k is odd, and each of them changes the flag.
C5_FlipsAlternate ==
    pc = "loop" =>
        /\ startTree = ~flipsOdd
        /\ last.outcome \in FlipOutcomes => ((last.side = "start") <=> flipsOdd)

C5_Witness ==
    /\ pc = "loop" /\ last.outcome = "inserted" /\ last.side = "goal"
    /\ ~flipsOdd /\ startTree

\* C6: once the termination condition has tripped for good, solve() returns; it
\* returns EXACT_SOLUTION exactly when this call found a bridge and recorded a
\* path, and TIMEOUT when the main loop was left without one.
C6_SolveReturns ==
    /\ [](Returned /\ status \in {"EXACT_SOLUTION", "TIMEOUT"} =>
            /\ (status = "EXACT_SOLUTION") <=> (path # <<>>)
            /\ (status = "EXACT_SOLUTION") <=> (last.outcome = "connected"))
    /\ [](Returned /\ call.goalOK /\ call.couldSample /\ Len(startMotions_) > 0 =>
            status \in {"EXACT_SOLUTION", "TIMEOUT"})
    /\ (pc = "loop") ~> (pc = "idle")

C6_Witness ==
    Returned /\ status = "TIMEOUT" /\ ptc /\ last.outcome = "inserted"

\* C7: with a sampleable goal, no valid start state and an empty start tree,
\* solve() returns INVALID_START without a main-loop iteration; both trees are
\* empty and the connection record is unset.
C7_NoStartIsInvalidStart ==
    (/\ clears = 0 /\ (pc = "loop" \/ status # "NONE")
     /\ call.goalOK /\ Len(startMotions_) = 0) =>
        /\ pc = "idle" /\ status = "INVALID_START"
        /\ last = NoIteration
        /\ AllEmpty /\ connectionPoint_ = NullPair

C7_Witness ==
    Returned /\ call.goalOK /\ call.couldSample /\ status = "INVALID_START" /\ AllEmpty

\* C8: solve() reaches the first test of its main loop having added nothing but
\* parentless start motions; when the termination condition is true at that test it
\* returns TIMEOUT there, with the trees and the connection record as they are.
Extends(old, new) ==
    /\ Len(new) >= Len(old)
    /\ \A i \in 1..Len(old) : new[i] = old[i]
    /\ \A i \in (Len(old) + 1)..Len(new) : new[i].parent = NULL
C8_ImmediateTimeout ==
    /\ [][(pc = "idle" /\ pc' = "loop") =>
            /\ UNCHANGED <<goalMotions_, nnGoal_, goalPdf_, connectionPoint_>>
            /\ Extends(startMotions_, startMotions_')]_vars
    /\ [][(pc = "loop" /\ last = NoIteration /\ ptc) =>
            /\ pc' = "idle" /\ status' = "TIMEOUT"
            /\ UNCHANGED planner]_vars

C8_Witness ==
    /\ Returned /\ status = "TIMEOUT" /\ last = NoIteration /\ ptc
    /\ Len(startMotions_) > 0 /\ goalMotions_ = <<>>

\* C9: an iteration whose goal-tree replenishment leaves the goal tree empty ends
\* the search there, whatever the termination condition says: nothing is inserted,
\* no tree is sampled, and solve() returns TIMEOUT.
C9_EmptyGoalTreeStops ==
    [][(/\ pc = "loop" /\ ptc = FALSE /\ ~solved
        /\ ~(pc' = "loop" /\ ptc' # ptc)
        /\ goalMotions_' = <<>>) =>
            /\ pc' = "idle" /\ status' = "TIMEOUT"
            /\ last'.outcome = "nogoal"
            /\ UNCHANGED <<startMotions_, nnStart_, startPdf_, goalMotions_, nnGoal_,
                           goalPdf_, connectionPoint_, path>>]_vars

C9_Witness ==
    /\ Returned /\ status = "TIMEOUT" /\ last.outcome = "nogoal" /\ ptc = FALSE
    /\ goalMotions_ = <<>> /\ Len(startMotions_) > 0

\* C10: after clear() the node lists, the indices and the samplers of both trees
\* are empty and the connection record is (NULL, NULL), whatever ran before; a
\* clear() that follows a clear() changes nothing.
C10_ClearIdempotent ==
    /\ [](clears >= 1 => AllEmpty /\ connectionPoint_ = NullPair)
    /\ [][(clears >= 1 /\ clears' >= 1) => UNCHANGED <<planner, locals>>]_vars

C10_Witness ==
    clears = 2 /\ status = "EXACT_SOLUTION" /\ AllEmpty /\ connectionPoint_ = NullPair

\* ---------------------------------------------------------------- weights
RatEq(a, b) == a.num * b.den = b.num * a.den
RatLess(a, b) == a.num * b.den < b.num * a.den
WeightOf(t, i) == t.pdf[t.motions[i].element].weight
NextStartT == Tree(startMotions_', startPdf_', nnStart_')
NextGoalT == Tree(goalMotions_', goalPdf_', nnGoal_')

\* What one addMotion(node, neighbors) must have done to the weights of a tree:
\* old is the tree before the call, new the tree after it.
AddMotionEffect(old, new, neighbors) ==
    LET n == Len(new.motions)
        k == Len(neighbors)
        IsNeighbor(i) == \E j \in 1..k : neighbors[j] = i
    IN /\ n = Len(old.motions) + 1
       /\ \A i \in 1..Len(old.motions) :
            LET w == WeightOf(old, i)
                w2 == WeightOf(new, i)
            IN IF IsNeighbor(i)
               THEN /\ w2.num * (w.num + w.den) = w.num * w2.den
                    /\ w.num > 0 => RatLess(w2, w)
               ELSE w2 = w
       /\ RatEq(WeightOf(new, n), [num |-> 1, den |-> k + 1])

\* The nodes a step appended to a tree went in one addMotion after the other, each
\* with the neighbors the index returned for its state, and each obeyed the rule;
\* a tree that got no node is exactly as it was.
RECURSIVE AddsFollowRule(_, _)
AddsFollowRule(old, new) ==
    IF Len(new.motions) <= Len(old.motions) THEN new = old
    ELSE LET node == new.motions[Len(old.motions) + 1]
             neighbors == nearestR(old.nn, old.motions, node.state, nbrhoodRadius_)
             mid == addMotion(node, old.motions, old.pdf, old.nn, neighbors)
         IN AddMotionEffect(old, mid, neighbors) /\ AddsFollowRule(mid, new)

\* C11: addMotion(node, neighbors) with k = |neighbors| turns the weight w > 0 of
\* every neighbor into w/(w+1) < w, gives the new node the weight 1/(k+1), and
\* leaves the weight of every other node of that tree and of every node of the
\* other tree as it was.
C11_AddMotionWeights ==
    [][/\ Len(startMotions_') >= Len(startMotions_) => AddsFollowRule(StartT, NextStartT)
       /\ Len(goalMotions_') >= Len(goalMotions_) => AddsFollowRule(GoalT, NextGoalT)]_vars

C11_Witness ==
    /\ pc = "loop" /\ last.outcome = "inserted" /\ last.side = "start"
    /\ Len(startMotions_) = 2 /\ Len(goalMotions_) = 1
    /\ startMotions_[1].state = startMotions_[2].state
    /\ WeightOf(StartT, 1) = [num |-> 1, den |-> 2]
    /\ WeightOf(StartT, 2) = [num |-> 1, den |-> 2]
    /\ WeightOf(GoalT, 1) = [num |-> 1, den |-> 1]

\* ------------------------------------------------------------ tree shape
\* The motions met from motion i on by following parent, at most fuel of them
RECURSIVE ParentWalk(_, _, _)
ParentWalk(motions, i, fuel) ==
    IF i = NULL \/ fuel = 0 THEN <<>>
    ELSE <<i>> \o ParentWalk(motions, motions[i].parent, fuel - 1)

\* C12: in each tree, the parent of a motion is NULL or a motion of the same tree
\* that was inserted before it (it is in that tree's list, index and sampler);
\* following parent from any motion never meets a motion twice and ends at a
\* motion without parent after at most |motions| motions.
C12_ParentChains ==
    \A t \in {StartT, GoalT} :
        LET m == t.motions
            n == Len(m)
        IN /\ \A i \in 1..n :
                /\ m[i].parent \in 0..(i - 1)
                /\ m[i].parent # NULL =>
                      /\ \E j \in 1..Len(t.nn) : t.nn[j] = m[i].parent
                      /\ \E e \in 1..Len(t.pdf) : t.pdf[e].data = m[i].parent
           /\ \A i \in 1..n :
                LET walk == ParentWalk(m, i, n + 1)
                IN /\ Len(walk) \in 1..n
                   /\ \A a, b \in 1..Len(walk) : a # b => walk[a] # walk[b]
                   /\ m[walk[Len(walk)]].parent = NULL

C12_Witness ==
    /\ Len(startMotions_) = 2 /\ startMotions_[2].parent = 1
    /\ Len(goalMotions_) = 2 /\ goalMotions_[2].parent = 1
    /\ ParentWalk(goalMotions_, 2, 3) = <<2, 1>>

\* ------------------------------------------------------ connection record
\* C13: the connection record is (NULL, NULL), or its first component is the state
\* of a motion of the start tree and its second component the state of a motion of
\* the goal tree, whichever tree was being expanded when the bridge was found.
C13_ConnectionStartThenGoal ==
    \/ connectionPoint_ = NullPair
    \/ /\ connectionPoint_[1].tree = "start"
       /\ connectionPoint_[1].idx \in 1..Len(startMotions_)
       /\ connectionPoint_[2].tree = "goal"
       /\ connectionPoint_[2].idx \in 1..Len(goalMotions_)

\* ---------------------------------------------------------------- lockstep
IsPrefix(s, t) == Len(s) <= Len(t) /\ \A i \in 1..Len(s) : t[i] = s[i]
Lockstep(t) ==
    LET n == Len(t.motions) IN
    /\ \A j \in 1..Len(t.nn) : t.nn[j] \in 1..n
    /\ \A e \in 1..Len(t.pdf) : t.pdf[e].data \in 1..n
    /\ \A i \in 1..n :
         /\ Cardinality({j \in 1..Len(t.nn) : t.nn[j] = i}) = 1
         /\ Cardinality({e \in 1..Len(t.pdf) : t.pdf[e].data = i}) = 1
         /\ t.motions[i].element \in 1..Len(t.pdf)
         /\ t.pdf[t.motions[i].element].data = i

\* C14: whatever solve() and clear() calls were made, and at every test of the
\* main loop, the motion list, the nearest-neighbor index and the sampler of each
\* tree hold the same motions, each once; while solve() runs the motion lists only
\* get motions appended.
C14_Lockstep ==
    /\ [](Lockstep(StartT) /\ Lockstep(GoalT))
    /\ [][clears' = 0 =>
            /\ IsPrefix(startMotions_, startMotions_')
            /\ IsPrefix(goalMotions_, goalMotions_')]_vars

C14_Witness ==
    /\ pc = "idle" /\ clears = 0 /\ status = "TIMEOUT"
    /\ Len(startMotions_) = 2 /\ nnStart_ = <<1, 2>> /\ Len(startPdf_) = 2
    /\ Len(goalMotions_) = 2 /\ nnGoal_ = <<1, 2>> /\ Len(goalPdf_) = 2

\* ------------------------------------------------------- drawing the seed
\* C15: whenever the main loop gets to pdf.sample (line 191), that is on every
\* pass of the loop test whose replenishment step leaves a goal motion, the tree
\* selected for expansion holds a motion and the sampler has one to give.
C15_SampledTreeNonEmpty ==
    (pc = "loop" /\ LoopContinues(ptc, solved)) =>
        \A r \in GoalStep :
            ~GoalTreeEmpty(Len(r.goal.motions)) =>
                /\ Len(Expanding(r).motions) >= 1
                /\ Len(Expanding(r).pdf) >= 1
                /\ pdfSample(Expanding(r).pdf) # {}

C15_Witness ==
    /\ pc = "loop" /\ ptc = FALSE /\ ~solved /\ ~startTree
    /\ last = [side |-> "goal", outcome |-> "nosample"]
    /\ Len(goalMotions_) = 1 /\ Len(goalPdf_) = 1

\* --------------------------------------------------- abandoned iterations
AbandonedOutcomes == {"nosample", "rejected", "invalid"}

\* C16: an iteration given up because sampleNear fails, because the candidate is
\* rejected for the density around it, or because the motion from the seed to the
\* candidate is invalid, leaves the start tree and the connection record as they
\* were and the goal tree as its replenishment step left it; and a motion with a
\* parent is in a tree only if the motion from its parent's state to its state was
\* accepted.
C16_AbandonedIterationFrame ==
    /\ [][(/\ pc = "loop" /\ pc' = "loop" /\ ptc' = ptc
           /\ last'.outcome \in AbandonedOutcomes) =>
              /\ UNCHANGED <<startMotions_, startPdf_, nnStart_, connectionPoint_,
                             path, solved>>
              /\ NextGoalT \in {r.goal : r \in GoalStep}]_vars
    /\ [](\A t \in {StartT, GoalT} :
            \A i \in 1..Len(t.motions) :
                t.motions[i].parent # NULL =>
                    <<t.motions[t.motions[i].parent].state, t.motions[i].state>>
                        \in checkMotion)

C16_Witness ==
    /\ pc = "loop" /\ last = [side |-> "start", outcome |-> "invalid"]
    /\ Len(startMotions_) = 1 /\ Len(goalMotions_) = 1
    /\ startMotions_[1].state = 1
    /\ <<1, 0>> \notin checkMotion
    /\ connectionPoint_ = NullPair

\* ------------------------------------------------------------ bridge step
TreeOf(side) == IF side = "start" THEN StartT ELSE GoalT
OtherOf(side) == IF side = "start" THEN "goal" ELSE "start"

\* The latest iteration added a motion and went through the bridge step, and the
\* trees are still as it left them.
JustInserted == pc = "loop" /\ last.outcome \in {"inserted", "connected"}

\* C17: the motions of the other tree within maxDistance_ of the new motion are
\* tried in the order the index returned them; the connection is made with the
\* first of them that passes the root pairing and the motion check, the ones
\* before it failed one of the two, and without a passing one nothing is recorded;
\* once a path is recorded, this solve() records no other path or connection.
C17_FirstPassingNeighbor ==
    /\ [](JustInserted =>
            LET T == TreeOf(last.side)
                O == TreeOf(OtherOf(last.side))
                m == Len(T.motions)
                new == T.motions[m]
                nbs == nearestR(O.nn, O.motions, new.state, maxDistanceR)
                Passes(j) ==
                    /\ PairQuery(T.motions[new.root].state,
                                 O.motions[O.motions[nbs[j]].root].state)
                           \in isStartGoalPairValid
                    /\ BridgeQuery(new.state, O.motions[nbs[j]].state) \in checkMotion
            IN IF last.outcome = "connected"
               THEN \E h \in 1..Len(nbs) :
                      /\ Passes(h)
                      /\ \A j \in 1..(h - 1) : ~Passes(j)
                      /\ connectionPoint_ = <<StatePtr(last.side, m),
                                              StatePtr(OtherOf(last.side), nbs[h])>>
                      /\ path = IF last.side = "start"
                                THEN SolutionPath(T.motions, O.motions, m, nbs[h])
                                ELSE SolutionPath(O.motions, T.motions, nbs[h], m)
                      /\ solved
               ELSE /\ \A j \in 1..Len(nbs) : ~Passes(j)
                    /\ path = <<>> /\ ~solved)
    /\ [][(pc = "loop" /\ path # <<>>) =>
            /\ UNCHANGED <<path, connectionPoint_>>
            /\ pc' = "loop" => solved']_vars

C17_Witness ==
    /\ pc = "loop" /\ last = [side |-> "goal", outcome |-> "connected"]
    /\ Len(startMotions_) = 2 /\ Len(goalMotions_) = 2
    /\ <<goalMotions_[2].state, startMotions_[1].state>> \notin checkMotion
    /\ connectionPoint_ = <<StatePtr("goal", 2), StatePtr("start", 2)>>

\* ------------------------------------------------------------------ memory
\* The objects the motions of the two trees stand for
TreeObjects ==
    UNION {NewMotion("start", i) : i \in 1..Len(startMotions_)}
        \cup UNION {NewMotion("goal", i) : i \in 1..Len(goalMotions_)}

\* C18: no object is released twice, whatever solve(), clear() and destructor
\* calls are made; while the planner is alive the allocated objects are exactly the
\* motions of the two trees with their states, each in one tree, and, while solve()
\* is in its main loop, the scratch state and the scratch motion, which are
\* released on every way out of the loop; once the destructor has run nothing is
\* left allocated.
C18_ReleasedExactlyOnce ==
    /\ freedTwice = {}
    /\ alive => heap = TreeObjects \cup (IF pc = "loop" THEN ScratchAllocated ELSE {})
    /\ ~alive => heap = {}

C18_Witness ==
    /\ ~alive /\ heap = {} /\ freedTwice = {}
    /\ clears = 1 /\ status = "EXACT_SOLUTION" /\ last.outcome = "connected"

\* -------------------------------------------------------------------- roots
\* The motion without parent that the parent links lead to from motion i
ChainRoot(motions, i) ==
    LET walk == ParentWalk(motions, i, Len(motions)) IN walk[Len(walk)]
\* The motion of the given tree that the connection record names
Connected(tree) ==
    IF connectionPoint_[1].tree = tree
    THEN connectionPoint_[1].idx ELSE connectionPoint_[2].idx

\* C19: the root of every motion is the state of the parentless motion its parent
\* links lead to: a seed's root is its own state, an expanded motion's root is the
\* root of the motion it was expanded from.  The roots of the two motions that a
\* bridge joins are the first and the last state of the path recorded for it.
C19_RootIsChainRoot ==
    /\ \A t \in {StartT, GoalT} :
         \A i \in 1..Len(t.motions) :
            LET m == t.motions[i] IN
            /\ m.root = ChainRoot(t.motions, i)
            /\ t.motions[m.root].state = t.motions[ChainRoot(t.motions, i)].state
            /\ m.parent = NULL => m.root = i
            /\ m.parent # NULL => m.root = t.motions[m.parent].root
    /\ (path # <<>> /\ clears = 0) =>
         LET s == startMotions_[Connected("start")]
             g == goalMotions_[Connected("goal")]
         IN /\ path[1] = startMotions_[s.root].state
            /\ path[Len(path)] = goalMotions_[g.root].state

C19_Witness ==
    /\ path # <<>> /\ clears = 0 /\ pc = "idle"
    /\ Len(startMotions_) = 2 /\ startMotions_[2].parent = NULL
    /\ startMotions_[1].state # startMotions_[2].state
    /\ Connected("start") = 2 /\ path[1] = startMotions_[2].state
    /\ Connected("goal") = 2 /\ goalMotions_[2].root = 1

\* ---------------------------------------------------- weights, closed form
\* The motions of the tree, other than motion i, within nbrhoodRadius_ of it
Crowd(t, i) ==
    {j \in (1..Len(t.motions)) \ {i} :
        nbrhoodRadius_.den * distanceFunction(t.motions[i].state, t.motions[j].state)
            <= nbrhoodRadius_.num}

\* C20: the weight of every motion in the sampler of its tree is 1/(1+m), where m
\* is the number of other motions of that tree within the neighborhood radius of
\* it; so every weight is above 0 and at most 1.
C20_WeightClosedForm ==
    \A t \in {StartT, GoalT} :
        \A i \in 1..Len(t.motions) :
            LET w == WeightOf(t, i) IN
            /\ RatEq(w, [num |-> 1, den |-> 1 + Cardinality(Crowd(t, i))])
            /\ 0 < w.num /\ w.num <= w.den

C20_Witness ==
    /\ Len(goalMotions_) = 2 /\ Crowd(GoalT, 1) = {2}
    /\ WeightOf(GoalT, 1) = [num |-> 1, den |-> 2]
    /\ WeightOf(GoalT, 2) = [num |-> 1, den |-> 2]
    /\ Len(startMotions_) = 2 /\ Crowd(StartT, 1) = {}
    /\ WeightOf(StartT, 1) = [num |-> 1, den |-> 1]

====
